---- MODULE Spec2Model ----
(***************************************************************************)
(* Model of the parse-correlate-reconcile pipeline of NetworkConfig:       *)
(*   BASELINE/config_deploy_1.2.py   (deployment plan builder and parsers) *)
(*   scripts/build_mac_profile_db.py (MAC -> profile extraction)           *)
(* Python str values are sequences of one-character strings, so that       *)
(* strip/split/startswith/lower/int are computed as Python computes them.  *)
(* Python dicts are functions (DOMAIN = keys), sets are sets, lists are    *)
(* sequences.  None is a value different from every str.                   *)
(***************************************************************************)
EXTENDS Integers, Sequences, FiniteSets, TLC

VARIABLES
    pc,                 \* where the run stands
    line_no,            \* index of the next line of the text being scanned
    \* main and build_config_commands (config_deploy_1.2.py)
    exclude_arg, exclude_vlans, existing_vlans, mac_table_entries, vlan_names,
    new_switch_mac_map, interface_modes, commands, printed, first_commands,
    \* parse_config_collector_output, parse_new_switch_mac_table,
    \* get_mac_to_interface and the lookup of line 175
    csv_lines, current_section, mac_table_output, mac_to_if, resolved,
    \* get_interface_modes (config_deploy_1.2.py)
    switchport_output, current_intf,
    \* get_interface_blocks and extract_config_profile (build_mac_profile_db.py)
    show_run, current_int, blocks, profiles

argVars == <<exclude_arg, exclude_vlans, existing_vlans>>
legacyVars == <<mac_table_entries, vlan_names>>
deviceVars == <<new_switch_mac_map, interface_modes>>
planVars == <<commands, printed, first_commands>>
indexVars == <<csv_lines, current_section, mac_table_output, mac_to_if, resolved>>

modesVars == <<switchport_output, current_intf>>
profileVars == <<show_run, current_int, blocks, profiles>>
scanVars == <<modesVars, profileVars>>

vars == <<pc, line_no, argVars, legacyVars, deviceVars, planVars, indexVars, scanVars>>

(***************************************************************************)
(* Bounds of the model.                                                    *)
(***************************************************************************)
MaxEntries == 2
MaxRows == 2
MaxModeLines == 3
MaxConfigLines == 4

(***************************************************************************)
(* Python values and str methods.                                          *)
(***************************************************************************)
None == <<"None">>

Digits == {"0", "1", "2", "3", "4", "5", "6", "7", "8", "9"}

IsSpace(c) == c \in {" ", "\t"}

DigitVal(c) ==
    CASE c = "0" -> 0 [] c = "1" -> 1 [] c = "2" -> 2 [] c = "3" -> 3
      [] c = "4" -> 4 [] c = "5" -> 5 [] c = "6" -> 6 [] c = "7" -> 7
      [] c = "8" -> 8 [] c = "9" -> 9

\* int(s) succeeds (no ValueError) on a non-empty run of decimal digits;
\* the texts of this model carry no sign, underscore or inner blank.
IsInt(s) == Len(s) > 0 /\ \A k \in 1..Len(s) : s[k] \in Digits

RECURSIVE IntOf(_)
IntOf(s) == IF Len(s) = 0 THEN 0
            ELSE 10 * IntOf(SubSeq(s, 1, Len(s) - 1)) + DigitVal(s[Len(s)])

RECURSIVE LStrip(_)
LStrip(s) == IF Len(s) > 0 /\ IsSpace(s[1]) THEN LStrip(Tail(s)) ELSE s

RECURSIVE RStrip(_)
RStrip(s) == IF Len(s) > 0 /\ IsSpace(s[Len(s)])
             THEN RStrip(SubSeq(s, 1, Len(s) - 1)) ELSE s

Strip(s) == RStrip(LStrip(s))

StartsWith(s, p) == Len(s) >= Len(p) /\ SubSeq(s, 1, Len(p)) = p

\* p in s
Contains(s, p) ==
    \E k \in 1..(Len(s) - Len(p) + 1) : SubSeq(s, k, k + Len(p) - 1) = p

\* s.split(sep): empty fields are kept
RECURSIVE SplitOn(_, _)
SplitOn(s, sep) ==
    IF ~Contains(s, sep) THEN <<s>>
    ELSE LET k == CHOOSE j \in 1..(Len(s) - Len(sep) + 1) :
                      /\ SubSeq(s, j, j + Len(sep) - 1) = sep
                      /\ \A h \in 1..(j - 1) : SubSeq(s, h, h + Len(sep) - 1) # sep
         IN <<SubSeq(s, 1, k - 1)>> \o SplitOn(SubSeq(s, k + Len(sep), Len(s)), sep)

\* s.split(): runs of whitespace separate, no empty fields
RECURSIVE SplitWS(_)
SplitWS(s) ==
    LET t == LStrip(s)
    IN IF Len(t) = 0 THEN <<>>
       ELSE LET stops == {j \in 1..Len(t) : IsSpace(t[j])}
                e == IF stops = {} THEN Len(t) + 1
                     ELSE CHOOSE j \in stops : \A h \in stops : j <= h
            IN <<SubSeq(t, 1, e - 1)>> \o SplitWS(SubSeq(t, e, Len(t)))

UpperAlpha == <<"A", "B", "C", "D", "E", "F", "G", "H", "I", "J", "K", "L", "M", "N", "O", "P", "Q", "R", "S", "T", "U", "V", "W", "X", "Y", "Z">>
LowerAlpha == <<"a", "b", "c", "d", "e", "f", "g", "h", "i", "j", "k", "l", "m", "n", "o", "p", "q", "r", "s", "t", "u", "v", "w", "x", "y", "z">>

LowerChar(c) ==
    IF \E k \in 1..26 : UpperAlpha[k] = c
    THEN LowerAlpha[CHOOSE k \in 1..26 : UpperAlpha[k] = c]
    ELSE c

\* s.lower()
Lower(s) == [k \in 1..Len(s) |-> LowerChar(s[k])]

\* s.replace(c, '')
RECURSIVE Remove(_, _)
Remove(s, cs) ==
    IF s = <<>> THEN <<>>
    ELSE (IF Head(s) \in cs THEN <<>> ELSE <<Head(s)>>) \o Remove(Tail(s), cs)

\* dict.get(key) and dict.get(key, default)
Get(d, k) == IF k \in DOMAIN d THEN d[k] ELSE None

GetOr(d, k, default) == IF k \in DOMAIN d THEN d[k] ELSE default

\* d[k] = v
Put(d, k, v) == [x \in DOMAIN d \cup {k} |-> IF x = k THEN v ELSE d[x]]

EmptyDict == << >>

Range(f) == {f[x] : x \in DOMAIN f}

\* all sequences over S of length at most n
SeqsUpTo(S, n) == UNION {[1..m -> S] : m \in 0..n}

(***************************************************************************)
(* Texts of the model.                                                     *)
(***************************************************************************)
\* text: [vlan ]
kw_vlan == <<"v", "l", "a", "n", " ">>
\* text: [ name ]
kw_name == <<" ", "n", "a", "m", "e", " ">>
\* text: [VLAN_]
kw_VLAN_ == <<"V", "L", "A", "N", "_">>
\* text: [interface ]
kw_interface == <<"i", "n", "t", "e", "r", "f", "a", "c", "e", " ">>
\* text: [ switchport access vlan ]
kw_access == <<" ", "s", "w", "i", "t", "c", "h", "p", "o", "r", "t", " ", "a", "c", "c", "e", "s", "s", " ", "v", "l", "a", "n", " ">>
\* text: [static access]
static_access == <<"s", "t", "a", "t", "i", "c", " ", "a", "c", "c", "e", "s", "s">>
\* text: [trunk]
trunk == <<"t", "r", "u", "n", "k">>
v9 == <<"9">>
v10 == <<"1", "0">>
v09 == <<"0", "9">>
\* text: [All]
vAll == <<"A", "l", "l">>
\* text: [00aa.bb00.0001]
macA == <<"0", "0", "a", "a", ".", "b", "b", "0", "0", ".", "0", "0", "0", "1">>
\* text: [00aa.bb00.0002]
macB == <<"0", "0", "a", "a", ".", "b", "b", "0", "0", ".", "0", "0", "0", "2">>
\* text: [Gi0/1]
G1 == <<"G", "i", "0", "/", "1">>
\* text: [Gi0/2]
G2 == <<"G", "i", "0", "/", "2">>
\* text: [DATA]
DATA == <<"D", "A", "T", "A">>
Empty == << >>

(***************************************************************************)
(* get_existing_vlans (config_deploy_1.2.py 9-17).                         *)
(***************************************************************************)
\* the longest run of decimal digits that s starts with
RECURSIVE LeadingDigits(_)
LeadingDigits(s) ==
    IF Len(s) > 0 /\ s[1] \in Digits THEN <<s[1]>> \o LeadingDigits(Tail(s)) ELSE <<>>

\* re.match(r"^\s*(\d+)\s+", line): [ok, group1]
VlanBriefRowOf(line) ==
    LET t == LStrip(line)
        d == LeadingDigits(t)
    IN IF Len(d) >= 1 /\ Len(t) > Len(d) /\ IsSpace(t[Len(d) + 1])
       THEN [ok |-> TRUE, vlan |-> d]
       ELSE [ok |-> FALSE, vlan |-> <<>>]

get_existing_vlans(vlan_output) ==
    {VlanBriefRowOf(vlan_output[k]).vlan :
        k \in {j \in DOMAIN vlan_output : VlanBriefRowOf(vlan_output[j]).ok}}

(***************************************************************************)
(* main: --exclude-vlans parsing (config_deploy_1.2.py 204-210).           *)
(***************************************************************************)
ParseExcludeVlans(arg) ==
    IF arg = Empty THEN {}
    ELSE {Strip(f) : f \in Range(SplitOn(arg, <<",">>))} \ {Empty}

(***************************************************************************)
(* build_config_commands (config_deploy_1.2.py 144-190).                   *)
(***************************************************************************)
\* first loop, 155-160
VlansToCreate_NoExclude(entries, existing, exclude) ==
    {entries[k].vlan : k \in {j \in DOMAIN entries :
        /\ entries[j].vlan # Empty
        /\ entries[j].vlan \notin existing}}

VlansToCreate_NoExisting(entries, existing, exclude) ==
    {entries[k].vlan : k \in {j \in DOMAIN entries :
        /\ entries[j].vlan # Empty
        /\ entries[j].vlan \notin exclude}}

VlansToCreate(entries, existing, exclude) ==
    {entries[k].vlan : k \in {j \in DOMAIN entries :
        /\ entries[j].vlan # Empty
        /\ entries[j].vlan \notin exclude
        /\ entries[j].vlan \notin existing}}

\* sorted(vlans_to_create, key=lambda x: int(x)): every order the stable sort
\* can return; set iteration order decides between keys that compare equal
SortedByInt(S) ==
    {o \in [1..Cardinality(S) -> S] :
        /\ \A a, b \in DOMAIN o : a # b => o[a] # o[b]
        /\ \A a, b \in DOMAIN o : a < b => IntOf(o[a]) <= IntOf(o[b])}

\* 163: the key int(x) is evaluated for every member of vlans_to_create; one
\* member that is not an integer literal makes sorted raise ValueError
SortRaises(S) == \E v \in S : ~IsInt(v)

\* 163-166
RECURSIVE CreationCommands(_, _)
CreationCommands(order, names) ==
    IF order = <<>> THEN <<>>
    ELSE LET vlan == Head(order)
             vlan_name == GetOr(names, vlan, kw_VLAN_ \o vlan)
         IN <<kw_vlan \o vlan, kw_name \o vlan_name>>
            \o CreationCommands(Tail(order), names)

\* 181: only "static access" ports are eligible
IsAccessPort_NotTrunk(mode) == mode # trunk

IsAccessPort(mode) == mode = static_access

\* 184: the interface was assigned earlier in this run
AlreadyProcessed_Never(processed, new_interface) == FALSE

AlreadyProcessed(processed, new_interface) == new_interface \in processed

\* one iteration of the second loop, 170-188; st = [cmds, processed, out]
AssignEntry(st, entry, mac_map, modes, exclude) ==
    LET vlan == entry.vlan
        mac == entry.mac
        new_interface == Get(mac_map, mac)
        mode == Get(modes, new_interface)
    IN IF vlan = Empty \/ mac = Empty \/ vlan \in exclude THEN st
       ELSE IF new_interface = None \/ new_interface = Empty
       THEN [st EXCEPT !.out = Append(@, [kind |-> "mac_not_found", mac |-> mac,
                                          interface |-> None, mode |-> None])]
       ELSE IF ~IsAccessPort(mode)
       THEN [st EXCEPT !.out = Append(@, [kind |-> "not_access", mac |-> mac,
                                          interface |-> new_interface, mode |-> mode])]
       ELSE IF AlreadyProcessed(st.processed, new_interface) THEN st
       ELSE [st EXCEPT !.cmds = @ \o <<kw_interface \o new_interface,
                                        kw_access \o vlan>>,
                       !.processed = @ \cup {new_interface}]

RECURSIVE AssignPass(_, _, _, _, _)
AssignPass(st, entries, mac_map, modes, exclude) ==
    IF entries = <<>> THEN st
    ELSE AssignPass(AssignEntry(st, Head(entries), mac_map, modes, exclude),
                    Tail(entries), mac_map, modes, exclude)

\* the whole function for one order of the sort; result = [cmds, processed, out]
build_config_commands(entries, names, existing, mac_map, modes, exclude, order) ==
    AssignPass([cmds |-> CreationCommands(order, names), processed |-> {}, out |-> <<>>],
               entries, mac_map, modes, exclude)

(***************************************************************************)
(* Reading a plan back (what the device would be told).                    *)
(***************************************************************************)
IsCreate(c) == StartsWith(c, kw_vlan)
CreateId(c) == SubSeq(c, Len(kw_vlan) + 1, Len(c))
IsName(c) == StartsWith(c, kw_name)
IsInterface(c) == StartsWith(c, kw_interface)
InterfaceOf(c) == SubSeq(c, Len(kw_interface) + 1, Len(c))
IsAssign(c) == StartsWith(c, kw_access)
AssignId(c) == SubSeq(c, Len(kw_access) + 1, Len(c))

CreatedIds(cmds) == {CreateId(cmds[k]) : k \in {j \in DOMAIN cmds : IsCreate(cmds[j])}}

(***************************************************************************)
(* Inputs of the plan builder.                                             *)
(***************************************************************************)
VlanTexts == {Empty, v9, v10, v09, vAll}
MacTexts == {Empty, macA, macB}
Interfaces == {G1, G2}

EntryPool == [vlan : VlanTexts, mac : MacTexts, interface : {G1}, role : {Empty}]

\* "", " 10 ,,09"
ExcludeArgs == {Empty, <<" ", "1", "0", " ", ",", ",", "0", "9">>}

\* text: [VLAN Name Status Ports]
B_header == <<"V", "L", "A", "N", " ", "N", "a", "m", "e", " ", "S", "t", "a", "t", "u", "s", " ", "P", "o", "r", "t", "s">>
\* text: [9    DATA    active]
B_row9 == <<"9", " ", " ", " ", " ", "D", "A", "T", "A", " ", " ", " ", " ", "a", "c", "t", "i", "v", "e">>
\* text: [  10   VLAN0010   active]
B_row10 == <<" ", " ", "1", "0", " ", " ", " ", "V", "L", "A", "N", "0", "0", "1", "0", " ", " ", " ", "a", "c", "t", "i", "v", "e">>
\* text: [---- ----]
B_rule == <<"-", "-", "-", "-", " ", "-", "-", "-", "-">>

\* "show vlan brief" outputs of the replacement switch
VlanBriefPool == {<<B_header, B_rule>>, <<B_header, B_rule, B_row9>>,
                  <<B_header, B_rule, B_row10>>, <<B_header, B_rule, B_row9, B_row10>>}

ExistingPool == {get_existing_vlans(t) : t \in VlanBriefPool}

NamePool == {(v9 :> DATA)}

PartialMaps(K, V) == UNION {[D -> V] : D \in SUBSET K}

MacMapPool == {m \in PartialMaps({macA, macB}, Interfaces) :
                  macA \in DOMAIN m => m[macA] = G1}

ModePool == {m \in PartialMaps(Interfaces, {None, static_access, trunk}) :
                G2 \in DOMAIN m /\ m[G2] = static_access}

IdleScan ==
    /\ switchport_output = <<>>
    /\ current_intf = None
    /\ show_run = <<>>
    /\ current_int = None
    /\ blocks = EmptyDict
    /\ profiles = EmptyDict

IdleIndex ==
    /\ csv_lines = <<>>
    /\ current_section = "None"
    /\ mac_table_output = <<>>
    /\ mac_to_if = EmptyDict
    /\ resolved = <<>>

InitBuild ==
    /\ pc = "start"
    /\ line_no = 1
    /\ IdleIndex
    /\ IdleScan
    /\ exclude_arg \in ExcludeArgs
    /\ exclude_vlans = {}
    /\ existing_vlans \in ExistingPool
    /\ mac_table_entries \in SeqsUpTo(EntryPool, MaxEntries)
    /\ vlan_names \in NamePool
    /\ new_switch_mac_map \in MacMapPool
    /\ interface_modes \in ModePool
    /\ commands = <<>>
    /\ printed = <<>>
    /\ first_commands = <<>>

\* main 204-210
ParseArgs ==
    /\ pc = "start"
    /\ exclude_vlans' = ParseExcludeVlans(exclude_arg)
    /\ pc' = "parsed"
    /\ UNCHANGED <<scanVars, line_no, exclude_arg, existing_vlans, legacyVars, deviceVars,
                   planVars, indexVars>>

\* main 244
Build ==
    /\ pc = "parsed"
    /\ IF SortRaises(VlansToCreate(mac_table_entries, existing_vlans, exclude_vlans))
       THEN /\ pc' = "ValueError"
            /\ UNCHANGED planVars
       ELSE /\ \E order \in SortedByInt(VlansToCreate(mac_table_entries,
                                                      existing_vlans, exclude_vlans)) :
                  LET r == build_config_commands(mac_table_entries, vlan_names,
                                                 existing_vlans, new_switch_mac_map,
                                                 interface_modes, exclude_vlans, order)
                  IN /\ commands' = r.cmds
                     /\ printed' = r.out
                     /\ first_commands' = r.cmds
            /\ pc' = "built"
    /\ UNCHANGED <<scanVars, line_no, argVars, legacyVars, deviceVars, indexVars>>

\* a second run of main against the device after the plan was applied:
\* get_existing_vlans now reads the created VLANs too
Rerun ==
    /\ pc = "built"
    /\ existing_vlans' = existing_vlans \cup CreatedIds(commands)
    /\ \E order \in SortedByInt(VlansToCreate(mac_table_entries, existing_vlans',
                                              exclude_vlans)) :
          LET r == build_config_commands(mac_table_entries, vlan_names,
                                         existing_vlans', new_switch_mac_map,
                                         interface_modes, exclude_vlans, order)
          IN /\ commands' = r.cmds
             /\ printed' = r.out
    /\ pc' = "rerun"
    /\ UNCHANGED <<scanVars, line_no, exclude_arg, exclude_vlans, legacyVars, deviceVars,
                   first_commands, indexVars>>

NextBuild == ParseArgs \/ Build \/ Rerun

SpecBuild == InitBuild /\ [][NextBuild]_vars

(***************************************************************************)
(* Properties of the plan builder (specification SpecBuild).               *)
(***************************************************************************)
Built == pc \in {"built", "rerun"}

ResolvedInterface(e) == Get(new_switch_mac_map, e.mac)

\* the record reaches the mode test of line 181 and fails it
NotAccessRecord(e) ==
    /\ e.vlan \notin exclude_vlans
    /\ ResolvedInterface(e) \notin {None, Empty}
    /\ Get(interface_modes, ResolvedInterface(e)) # static_access

InterfaceDirectives(cmds) == {j \in DOMAIN cmds : IsInterface(cmds[j])}

NotAccessDiagnostics == {j \in DOMAIN printed : printed[j].kind = "not_access"}

DiagnosedAndSkipped(e) ==
    /\ \E j \in NotAccessDiagnostics :
          /\ printed[j].mac = e.mac
          /\ printed[j].interface = ResolvedInterface(e)
          /\ printed[j].mode = Get(interface_modes, ResolvedInterface(e))
    /\ \A j \in InterfaceDirectives(commands) :
          InterfaceOf(commands[j]) # ResolvedInterface(e)

OnlyAccessPortsMutated ==
    \A j \in InterfaceDirectives(commands) :
        Get(interface_modes, InterfaceOf(commands[j])) = static_access

C3_ExcludedNeverEmitted ==
    Built =>
        \A j \in DOMAIN commands :
            /\ IsCreate(commands[j]) => CreateId(commands[j]) \notin exclude_vlans
            /\ IsAssign(commands[j]) => AssignId(commands[j]) \notin exclude_vlans

C3_Witness ==
    /\ pc = "built"
    /\ commands # <<>>
    /\ \E k \in DOMAIN mac_table_entries :
          /\ mac_table_entries[k].vlan \in exclude_vlans
          /\ mac_table_entries[k].vlan \notin existing_vlans
          /\ Get(interface_modes, ResolvedInterface(mac_table_entries[k])) = static_access

\* C4: no 'vlan <id>' creation directive is emitted for an id in the
\* existing-VLAN set, and the run that follows with the created ids added to
\* the existing-VLAN set emits no creation directive at all.
C4_NoCreationOfExisting ==
    /\ Built => CreatedIds(commands) \cap existing_vlans = {}
    /\ pc = "rerun" => CreatedIds(commands) = {}

C4_Witness ==
    /\ pc = "rerun"
    /\ CreatedIds(first_commands) # {}
    /\ \E k \in DOMAIN mac_table_entries :
          /\ mac_table_entries[k].vlan \in existing_vlans \ CreatedIds(first_commands)
          /\ mac_table_entries[k].vlan \notin exclude_vlans

CreateDirectives(cmds) == {j \in DOMAIN cmds : IsCreate(cmds[j])}

\* C5: the 'vlan <id>' creation directives appear in strictly ascending
\* numeric order of <id> (no id value twice), each immediately followed by
\* its ' name <name>' directive, and all of them before every interface
\* directive.
C5_StrictlyAscending ==
    Built =>
        /\ \A a, b \in CreateDirectives(commands) :
              a < b => IntOf(CreateId(commands[a])) < IntOf(CreateId(commands[b]))
        /\ \A a \in CreateDirectives(commands) :
              /\ a + 1 \in DOMAIN commands
              /\ commands[a + 1]
                   = kw_name \o GetOr(vlan_names, CreateId(commands[a]),
                                      kw_VLAN_ \o CreateId(commands[a]))
        /\ \A a \in CreateDirectives(commands) :
              \A b \in InterfaceDirectives(commands) : a < b

\* the record passes the tests of lines 173 and 176
Assignable(e) ==
    /\ e.vlan # Empty
    /\ e.mac # Empty
    /\ e.vlan \notin exclude_vlans
    /\ ResolvedInterface(e) \notin {None, Empty}

\* C6: each interface name appears in at most one interface directive, and the
\* VLAN assigned to it is the VLAN of the first record, in legacy order, that
\* resolves to it; later records resolving to it are skipped.
C6_FirstRecordWins ==
    Built =>
        /\ \A a, b \in InterfaceDirectives(commands) :
              a # b => InterfaceOf(commands[a]) # InterfaceOf(commands[b])
        /\ \A a \in InterfaceDirectives(commands) :
              /\ a + 1 \in DOMAIN commands
              /\ IsAssign(commands[a + 1])
              /\ \E k \in DOMAIN mac_table_entries :
                    /\ Assignable(mac_table_entries[k])
                    /\ ResolvedInterface(mac_table_entries[k]) = InterfaceOf(commands[a])
                    /\ AssignId(commands[a + 1]) = mac_table_entries[k].vlan
                    /\ \A h \in 1..(k - 1) :
                          Assignable(mac_table_entries[h])
                              => ResolvedInterface(mac_table_entries[h])
                                   # InterfaceOf(commands[a])
        /\ Cardinality({j \in DOMAIN commands : IsAssign(commands[j])})
             = Cardinality(InterfaceDirectives(commands))

C6_Witness ==
    /\ pc = "built"
    /\ \E k, h \in DOMAIN mac_table_entries :
          /\ k < h
          /\ Assignable(mac_table_entries[k])
          /\ Assignable(mac_table_entries[h])
          /\ mac_table_entries[k].vlan # mac_table_entries[h].vlan
          /\ ResolvedInterface(mac_table_entries[k]) = ResolvedInterface(mac_table_entries[h])
          /\ Get(interface_modes, ResolvedInterface(mac_table_entries[k])) = static_access
          /\ Len(commands) >= 2
          /\ AssignId(commands[Len(commands)]) = mac_table_entries[k].vlan

(***************************************************************************)
(* parse_config_collector_output (config_deploy_1.2.py 51-87).             *)
(***************************************************************************)
\* text: [===]
kw_section == <<"=", "=", "=">>
\* text: [MAC_ADDRESS_TABLE]
kw_MAC_ADDRESS_TABLE == <<"M", "A", "C", "_", "A", "D", "D", "R", "E", "S", "S", "_", "T", "A", "B", "L", "E">>
\* text: [VLAN_NAMES]
kw_VLAN_NAMES == <<"V", "L", "A", "N", "_", "N", "A", "M", "E", "S">>
\* text: [RUNNING_CONFIG]
kw_RUNNING_CONFIG == <<"R", "U", "N", "N", "I", "N", "G", "_", "C", "O", "N", "F", "I", "G">>

\* 59-67; "None" stands for current_section = None
SectionOf(line) ==
    IF Contains(line, kw_MAC_ADDRESS_TABLE) THEN "mac"
    ELSE IF Contains(line, kw_VLAN_NAMES) THEN "vlan"
    ELSE IF Contains(line, kw_RUNNING_CONFIG) THEN "running"
    ELSE "None"

\* 74-79
CsvEntry(parts) ==
    [vlan |-> Strip(parts[1]),
     mac |-> Lower(Strip(parts[2])),
     interface |-> Strip(parts[3]),
     role |-> IF Len(parts) >= 4 THEN Strip(parts[4]) ELSE Empty]

\* one iteration of the loop of line 55; st = [section, entries, names]
CsvLine(st, raw) ==
    LET line == Strip(raw)
        parts == SplitOn(line, <<",">>)
    IN IF line = Empty THEN st
       ELSE IF StartsWith(line, kw_section)
       THEN [st EXCEPT !.section = SectionOf(line)]
       ELSE IF st.section = "mac"
       THEN IF Len(parts) < 3 THEN st
            ELSE [st EXCEPT !.entries = Append(@, CsvEntry(parts))]
       ELSE IF st.section = "vlan"
       THEN IF Len(parts) >= 2
            THEN [st EXCEPT !.names = Put(@, Strip(parts[1]), Strip(parts[2]))]
            ELSE st
       ELSE st

(***************************************************************************)
(* parse_new_switch_mac_table (config_deploy_1.2.py 106-117).              *)
(***************************************************************************)
\* 108-115: what one line contributes; ok = FALSE when the line is skipped
NewSwitchRowOf(raw) ==
    LET line == Strip(raw)
        parts == SplitWS(line)
    IN IF line # Empty /\ line[1] \in Digits /\ Len(parts) >= 4
       THEN [ok |-> TRUE, mac |-> Lower(parts[2]), interface |-> parts[4]]
       ELSE [ok |-> FALSE, mac |-> Empty, interface |-> Empty]

\* 116: mac_map[mac] = interface
NewSwitchRow(mac_map, raw) ==
    LET row == NewSwitchRowOf(raw)
    IN IF row.ok THEN Put(mac_map, row.mac, row.interface) ELSE mac_map

(***************************************************************************)
(* get_mac_to_interface (build_mac_profile_db.py 18-27).                   *)
(***************************************************************************)
HexLower == Digits \cup {"a", "b", "c", "d", "e", "f"}

\* re.match(r"[0-9a-f]{4}\.[0-9a-f]{4}\.[0-9a-f]{4}", s): a match at the start
MatchesCiscoMac(s) ==
    /\ Len(s) >= 14
    /\ \A k \in {1, 2, 3, 4, 6, 7, 8, 9, 11, 12, 13, 14} : s[k] \in HexLower
    /\ s[5] = "." /\ s[10] = "."

\* ":".join(mac[i:i+2] for i in range(0, len(mac), 2))
RECURSIVE ColonPairs(_)
ColonPairs(s) ==
    IF Len(s) <= 2 THEN s
    ELSE SubSeq(s, 1, 2) \o <<":">> \o ColonPairs(SubSeq(s, 3, Len(s)))

\* 21-25
MacToIfRowOf(raw) ==
    LET parts == SplitWS(raw)
    IN IF Len(parts) >= 3 /\ MatchesCiscoMac(Lower(parts[2]))
       THEN [ok |-> TRUE, mac |-> ColonPairs(Lower(Remove(parts[2], {"."}))),
             interface |-> parts[Len(parts)]]
       ELSE [ok |-> FALSE, mac |-> Empty, interface |-> Empty]

\* 26: mac_to_if[mac] = parts[-1]
MacToIfRow(index, raw) ==
    LET row == MacToIfRowOf(raw)
    IN IF row.ok THEN Put(index, row.mac, row.interface) ELSE index

(***************************************************************************)
(* The legacy file and the replacement switch's MAC table, parsed line by  *)
(* line, then each legacy record looked up (specification SpecIndex).      *)
(***************************************************************************)
\* text: [=== MAC_ADDRESS_TABLE ===]
csv_mac_header == <<"=", "=", "=", " ", "M", "A", "C", "_", "A", "D", "D", "R", "E", "S", "S", "_", "T", "A", "B", "L", "E", " ", "=", "=", "=">>
\* text: [=== VLAN_NAMES ===]
csv_vlan_header == <<"=", "=", "=", " ", "V", "L", "A", "N", "_", "N", "A", "M", "E", "S", " ", "=", "=", "=">>
\* text: [9,00AA.BB00.0001,Gi0/1,DATA]
csv_row_upper == <<"9", ",", "0", "0", "A", "A", ".", "B", "B", "0", "0", ".", "0", "0", "0", "1", ",", "G", "i", "0", "/", "1", ",", "D", "A", "T", "A">>
\* text: [10,00:aa:bb:00:00:01,Gi0/2]
csv_row_colon == <<"1", "0", ",", "0", "0", ":", "a", "a", ":", "b", "b", ":", "0", "0", ":", "0", "0", ":", "0", "1", ",", "G", "i", "0", "/", "2">>
\* text: [9,DATA]
csv_row_short == <<"9", ",", "D", "A", "T", "A">>
\* text: [1 00aa.bb00.0001 DYNAMIC Gi0/1]
T_row1 == <<"1", " ", "0", "0", "a", "a", ".", "b", "b", "0", "0", ".", "0", "0", "0", "1", " ", "D", "Y", "N", "A", "M", "I", "C", " ", "G", "i", "0", "/", "1">>
\* text: [   1    00AA.BB00.0001    DYNAMIC     Gi0/2]
T_row1_upper == <<" ", " ", " ", "1", " ", " ", " ", " ", "0", "0", "A", "A", ".", "B", "B", "0", "0", ".", "0", "0", "0", "1", " ", " ", " ", " ", "D", "Y", "N", "A", "M", "I", "C", " ", " ", " ", " ", " ", "G", "i", "0", "/", "2">>
\* text: [10 00aa.bb00.0002 DYNAMIC Gi0/2]
T_row2 == <<"1", "0", " ", "0", "0", "a", "a", ".", "b", "b", "0", "0", ".", "0", "0", "0", "2", " ", "D", "Y", "N", "A", "M", "I", "C", " ", "G", "i", "0", "/", "2">>
\* text: [Vlan Mac Address Type Ports]
T_header == <<"V", "l", "a", "n", " ", "M", "a", "c", " ", "A", "d", "d", "r", "e", "s", "s", " ", "T", "y", "p", "e", " ", "P", "o", "r", "t", "s">>
\* text: [1 00aa.bb00.0001 Gi0/2]
T_short == <<"1", " ", "0", "0", "a", "a", ".", "b", "b", "0", "0", ".", "0", "0", "0", "1", " ", "G", "i", "0", "/", "2">>

CsvLinePool == {csv_mac_header, csv_vlan_header, csv_row_upper, csv_row_colon,
                csv_row_short}

MacTableLinePool == {T_row1, T_row1_upper, T_row2, T_header, T_short}

IdleBuild ==
    /\ exclude_arg = Empty
    /\ exclude_vlans = {}
    /\ existing_vlans = {}
    /\ commands = <<>>
    /\ printed = <<>>
    /\ first_commands = <<>>

InitIndex ==
    /\ pc = "csv"
    /\ line_no = 1
    /\ IdleBuild
    /\ IdleScan
    /\ interface_modes = EmptyDict
    /\ csv_lines \in SeqsUpTo(CsvLinePool, MaxRows)
    /\ mac_table_output \in SeqsUpTo(MacTableLinePool, MaxRows)
    /\ current_section = "None"
    /\ mac_table_entries = <<>>
    /\ vlan_names = EmptyDict
    /\ new_switch_mac_map = EmptyDict
    /\ mac_to_if = EmptyDict
    /\ resolved = <<>>

\* parse_config_collector_output, one line of the file
ParseCsvLine ==
    /\ pc = "csv"
    /\ line_no <= Len(csv_lines)
    /\ LET st == CsvLine([section |-> current_section, entries |-> mac_table_entries,
                          names |-> vlan_names], csv_lines[line_no])
       IN /\ current_section' = st.section
          /\ mac_table_entries' = st.entries
          /\ vlan_names' = st.names
    /\ line_no' = line_no + 1
    /\ UNCHANGED <<scanVars, pc, argVars, deviceVars, planVars, csv_lines, mac_table_output,
                   mac_to_if, resolved>>

\* line 87
ReturnCsv ==
    /\ pc = "csv"
    /\ line_no > Len(csv_lines)
    /\ pc' = "new_switch"
    /\ line_no' = 1
    /\ UNCHANGED <<scanVars, argVars, legacyVars, deviceVars, planVars, indexVars>>

\* parse_new_switch_mac_table, one line of the output
ParseNewSwitchLine ==
    /\ pc = "new_switch"
    /\ line_no <= Len(mac_table_output)
    /\ new_switch_mac_map' = NewSwitchRow(new_switch_mac_map, mac_table_output[line_no])
    /\ line_no' = line_no + 1
    /\ UNCHANGED <<scanVars, pc, argVars, legacyVars, interface_modes, planVars, indexVars>>

\* line 117
ReturnNewSwitch ==
    /\ pc = "new_switch"
    /\ line_no > Len(mac_table_output)
    /\ pc' = "mac_to_if"
    /\ line_no' = 1
    /\ UNCHANGED <<scanVars, argVars, legacyVars, deviceVars, planVars, indexVars>>

\* get_mac_to_interface, one line of the same output
MacToIfLine ==
    /\ pc = "mac_to_if"
    /\ line_no <= Len(mac_table_output)
    /\ mac_to_if' = MacToIfRow(mac_to_if, mac_table_output[line_no])
    /\ line_no' = line_no + 1
    /\ UNCHANGED <<scanVars, pc, argVars, legacyVars, deviceVars, planVars, csv_lines,
                   current_section, mac_table_output, resolved>>

\* build_mac_profile_db.py 27
ReturnMacToIf ==
    /\ pc = "mac_to_if"
    /\ line_no > Len(mac_table_output)
    /\ pc' = "lookup"
    /\ UNCHANGED <<scanVars, line_no, argVars, legacyVars, deviceVars, planVars, indexVars>>

\* config_deploy_1.2.py 175, for every legacy record
Lookup ==
    /\ pc = "lookup"
    /\ resolved' = [k \in DOMAIN mac_table_entries |->
                       Get(new_switch_mac_map, mac_table_entries[k].mac)]
    /\ pc' = "looked_up"
    /\ UNCHANGED <<scanVars, line_no, argVars, legacyVars, deviceVars, planVars, csv_lines,
                   current_section, mac_table_output, mac_to_if>>

NextIndex ==
    \/ ParseCsvLine \/ ReturnCsv
    \/ ParseNewSwitchLine \/ ReturnNewSwitch
    \/ MacToIfLine \/ ReturnMacToIf
    \/ Lookup

SpecIndex == InitIndex /\ [][NextIndex]_vars

(***************************************************************************)
(* Properties of the correlation indexes (specification SpecIndex).        *)
(***************************************************************************)
NewSwitchRows == {j \in DOMAIN mac_table_output : NewSwitchRowOf(mac_table_output[j]).ok}

MacToIfRows == {j \in DOMAIN mac_table_output : MacToIfRowOf(mac_table_output[j]).ok}

FirstNewSwitchRow(mac) ==
    CHOOSE j \in NewSwitchRows :
        /\ NewSwitchRowOf(mac_table_output[j]).mac = mac
        /\ \A h \in NewSwitchRows :
              NewSwitchRowOf(mac_table_output[h]).mac = mac => j <= h

FirstMacToIfRow(mac) ==
    CHOOSE j \in MacToIfRows :
        /\ MacToIfRowOf(mac_table_output[j]).mac = mac
        /\ \A h \in MacToIfRows :
              MacToIfRowOf(mac_table_output[h]).mac = mac => j <= h

\* C2: when the same hardware address appears in two rows with different
\* interfaces, a lookup in the index returns the interface of the first row,
\* in the index of parse_new_switch_mac_table and in that of
\* get_mac_to_interface.
C2_FirstRowWins ==
    /\ pc \in {"mac_to_if", "lookup", "looked_up"} =>
          \A mac \in DOMAIN new_switch_mac_map :
              new_switch_mac_map[mac]
                = NewSwitchRowOf(mac_table_output[FirstNewSwitchRow(mac)]).interface
    /\ pc \in {"lookup", "looked_up"} =>
          \A mac \in DOMAIN mac_to_if :
              mac_to_if[mac]
                = MacToIfRowOf(mac_table_output[FirstMacToIfRow(mac)]).interface

\* the hardware address a text denotes: its hex digits, lower case
Canonical(text) == Lower(Remove(text, {".", ":", "-"}))

IsHardwareAddress(text) ==
    /\ Len(Canonical(text)) = 12
    /\ \A k \in 1..12 : Canonical(text)[k] \in HexLower

SameAddress(a, b) ==
    IsHardwareAddress(a) /\ IsHardwareAddress(b) /\ Canonical(a) = Canonical(b)

\* the MAC column of a row of the replacement switch's table, as written
RawMacOf(raw) == SplitWS(Strip(raw))[2]

\* C7: a legacy record whose MAC is written differently (letter case, colons
\* instead of dots) from the same address in the replacement switch's MAC
\* table resolves to an interface that the table gives for that address.
C7_RepresentationsCompareEqual ==
    pc = "looked_up" =>
        \A k \in DOMAIN mac_table_entries : \A j \in NewSwitchRows :
            SameAddress(mac_table_entries[k].mac, RawMacOf(mac_table_output[j]))
                => resolved[k] \in
                     {NewSwitchRowOf(mac_table_output[h]).interface :
                        h \in {i \in NewSwitchRows :
                                 SameAddress(RawMacOf(mac_table_output[i]),
                                             RawMacOf(mac_table_output[j]))}}

(***************************************************************************)
(* get_interface_modes (config_deploy_1.2.py 119-142).                     *)
(***************************************************************************)
\* text: [Name:]
kw_Name == <<"N", "a", "m", "e", ":">>
\* text: [Operational Mode:]
kw_Operational_Mode == <<"O", "p", "e", "r", "a", "t", "i", "o", "n", "a", "l", " ", "M", "o", "d", "e", ":">>

\* "if x:" on an Optional[str]
Truthy(x) == x # None /\ x # Empty

\* one iteration of the loop of line 128; st = [current_intf, modes]
ModeLine(st, raw) ==
    LET line == Strip(raw)
    IN IF StartsWith(line, kw_Name)
       THEN LET parts == SplitWS(line)
            IN IF Len(parts) >= 2
               THEN [current_intf |-> parts[2], modes |-> Put(st.modes, parts[2], None)]
               ELSE st
       ELSE IF Truthy(st.current_intf) /\ Contains(line, kw_Operational_Mode)
       THEN LET parts == SplitOn(line, kw_Operational_Mode)
            IN IF Len(parts) > 1
               THEN [current_intf |-> None,
                     modes |-> Put(st.modes, st.current_intf, Lower(Strip(parts[2])))]
               ELSE st
       ELSE st

\* text: [Name: Gi0/1]
S_name1 == <<"N", "a", "m", "e", ":", " ", "G", "i", "0", "/", "1">>
\* text: [Name: Gi0/2]
S_name2 == <<"N", "a", "m", "e", ":", " ", "G", "i", "0", "/", "2">>
\* text: [Name:]
S_name_bare == <<"N", "a", "m", "e", ":">>
\* text: [Operational Mode: trunk]
S_mode_trunk == <<"O", "p", "e", "r", "a", "t", "i", "o", "n", "a", "l", " ", "M", "o", "d", "e", ":", " ", "t", "r", "u", "n", "k">>
\* text: [  Operational Mode: static access]
S_mode_access == <<" ", " ", "O", "p", "e", "r", "a", "t", "i", "o", "n", "a", "l", " ", "M", "o", "d", "e", ":", " ", "s", "t", "a", "t", "i", "c", " ", "a", "c", "c", "e", "s", "s">>
\* text: [Switchport: Enabled]
S_other == <<"S", "w", "i", "t", "c", "h", "p", "o", "r", "t", ":", " ", "E", "n", "a", "b", "l", "e", "d">>

SwitchportLinePool == {S_name1, S_name2, S_name_bare, S_mode_trunk, S_mode_access,
                       S_other}

InitModes ==
    /\ pc = "modes"
    /\ line_no = 1
    /\ IdleBuild
    /\ IdleIndex
    /\ mac_table_entries = <<>>
    /\ vlan_names = EmptyDict
    /\ new_switch_mac_map = EmptyDict
    /\ switchport_output \in SeqsUpTo(SwitchportLinePool, MaxModeLines)
    /\ interface_modes = EmptyDict
    /\ current_intf = None
    /\ show_run = <<>>
    /\ current_int = None
    /\ blocks = EmptyDict
    /\ profiles = EmptyDict

\* get_interface_modes, one line of the output
ScanModeLine ==
    /\ pc = "modes"
    /\ line_no <= Len(switchport_output)
    /\ LET st == ModeLine([current_intf |-> current_intf, modes |-> interface_modes],
                          switchport_output[line_no])
       IN /\ current_intf' = st.current_intf
          /\ interface_modes' = st.modes
    /\ line_no' = line_no + 1
    /\ UNCHANGED <<pc, argVars, legacyVars, new_switch_mac_map, planVars, indexVars,
                   switchport_output, profileVars>>

\* line 142
ReturnModes ==
    /\ pc = "modes"
    /\ line_no > Len(switchport_output)
    /\ pc' = "modes_returned"
    /\ UNCHANGED <<line_no, argVars, legacyVars, deviceVars, planVars, indexVars,
                   scanVars>>

NextModes == ScanModeLine \/ ReturnModes

SpecModes == InitModes /\ [][NextModes]_vars

(***************************************************************************)
(* Properties of the port-mode parser (specification SpecModes).           *)
(***************************************************************************)
IsMarkerLine(raw) == StartsWith(Strip(raw), kw_Name)

\* the marker lines before line n of the output
MarkersBefore(n) == {j \in 1..(n - 1) : IsMarkerLine(switchport_output[j])}

LatestMarkerBefore(n) == CHOOSE j \in MarkersBefore(n) : \A h \in MarkersBefore(n) : h <= j

\* the interface introduced by the most recent marker line before line n:
\* its name token, None when there is no marker or the marker has no name
IntroducedBefore(n) ==
    IF MarkersBefore(n) = {} THEN None
    ELSE LET parts == SplitWS(Strip(switchport_output[LatestMarkerBefore(n)]))
         IN IF Len(parts) >= 2 THEN parts[2] ELSE None

\* the scan of line line_no gives interface intf a mode
RecordsModeFor(intf) ==
    /\ intf \in DOMAIN interface_modes'
    /\ interface_modes'[intf] # None
    /\ intf \in DOMAIN interface_modes => interface_modes[intf] # interface_modes'[intf]

\* C9: a mode is only ever recorded, by an 'Operational Mode:' line, for the
\* interface introduced by the most recent preceding 'Name:' line (none when
\* that line carries no name token); an interface keeps mode None until then.
C9_ModeOnlyForLatestMarker ==
    [][\A intf \in DOMAIN interface_modes' :
          RecordsModeFor(intf) =>
              /\ Contains(Strip(switchport_output[line_no]), kw_Operational_Mode)
              /\ IntroducedBefore(line_no) = intf]_vars

(***************************************************************************)
(* get_interface_blocks (build_mac_profile_db.py 29-42).                   *)
(***************************************************************************)
\* text: [interface]
kw_interface_decl == <<"i", "n", "t", "e", "r", "f", "a", "c", "e">>
kw_bang == <<"!">>

\* 34
IsDeclaration(line) == StartsWith(line, kw_interface_decl)

\* 38
IsTerminator_Solely(line) == line = kw_bang

IsTerminator(line) == StartsWith(line, kw_bang)

\* 35: line.strip().split()[1] raises IndexError when there is no second token
DeclarationRaises(line) == Len(SplitWS(Strip(line))) < 2

\* one iteration of the loop of line 33 that does not raise;
\* st = [current_int, blocks]
BlockLine(st, line) ==
    IF IsDeclaration(line)
    THEN LET name == SplitWS(Strip(line))[2]
         IN [current_int |-> name, blocks |-> Put(st.blocks, name, <<line>>)]
    ELSE IF Truthy(st.current_int)
    THEN IF IsTerminator(line)
         THEN [st EXCEPT !.current_int = None]
         ELSE [st EXCEPT !.blocks = Put(@, st.current_int,
                                        Append(st.blocks[st.current_int], line))]
    ELSE st

(***************************************************************************)
(* extract_config_profile (build_mac_profile_db.py 44-80).                 *)
(* The enumerated values of mode and poe are written as TLA+ strings; an   *)
(* Optional[int] field holds NoInt for None and <<n>> for the int n.       *)
(***************************************************************************)
\* text: [description]
kw_description == <<"d", "e", "s", "c", "r", "i", "p", "t", "i", "o", "n">>
\* text: [switchport mode access]
kw_mode_access == <<"s", "w", "i", "t", "c", "h", "p", "o", "r", "t", " ", "m", "o", "d", "e", " ", "a", "c", "c", "e", "s", "s">>
\* text: [switchport mode trunk]
kw_mode_trunk == <<"s", "w", "i", "t", "c", "h", "p", "o", "r", "t", " ", "m", "o", "d", "e", " ", "t", "r", "u", "n", "k">>
\* text: [switchport access vlan]
kw_access_vlan == <<"s", "w", "i", "t", "c", "h", "p", "o", "r", "t", " ", "a", "c", "c", "e", "s", "s", " ", "v", "l", "a", "n">>
\* text: [switchport voice vlan]
kw_voice_vlan == <<"s", "w", "i", "t", "c", "h", "p", "o", "r", "t", " ", "v", "o", "i", "c", "e", " ", "v", "l", "a", "n">>
\* text: [spanning-tree portfast]
kw_portfast == <<"s", "p", "a", "n", "n", "i", "n", "g", "-", "t", "r", "e", "e", " ", "p", "o", "r", "t", "f", "a", "s", "t">>
\* text: [power inline never]
kw_poe_never == <<"p", "o", "w", "e", "r", " ", "i", "n", "l", "i", "n", "e", " ", "n", "e", "v", "e", "r">>
\* text: [power inline auto]
kw_poe_auto == <<"p", "o", "w", "e", "r", " ", "i", "n", "l", "i", "n", "e", " ", "a", "u", "t", "o">>
\* text: [shutdown]
kw_shutdown == <<"s", "h", "u", "t", "d", "o", "w", "n">>

NoInt == << >>

\* 45-53
DefaultProfile ==
    [description |-> Empty, mode |-> "access", access_vlan |-> NoInt,
     voice_vlan |-> NoInt, portfast |-> FALSE, poe |-> "auto", shutdown |-> FALSE]

\* line.partition(" ")[2]
AfterFirstSpace(line) ==
    IF \E k \in 1..Len(line) : line[k] = " "
    THEN SubSeq(line, 1 + (CHOOSE k \in 1..Len(line) :
                              line[k] = " " /\ \A h \in 1..(k - 1) : line[h] # " "),
                Len(line))
    ELSE Empty

\* line.split()[-1]
LastToken(line) == SplitWS(line)[Len(SplitWS(line))]

\* 63-66 and 68-71: try: field = int(line.split()[-1]) / except Exception: pass
TrailingInt_ResetOnError(old, line) ==
    IF IsInt(LastToken(line)) THEN <<IntOf(LastToken(line))>> ELSE NoInt

TrailingInt(old, line) ==
    IF IsInt(LastToken(line)) THEN <<IntOf(LastToken(line))>> ELSE old

\* one iteration of the loop of line 54
ProfileLine(config, raw) ==
    LET line == Strip(raw)
    IN IF StartsWith(line, kw_description)
       THEN [config EXCEPT !.description = AfterFirstSpace(line)]
       ELSE IF Contains(line, kw_mode_access) THEN [config EXCEPT !.mode = "access"]
       ELSE IF Contains(line, kw_mode_trunk) THEN [config EXCEPT !.mode = "trunk"]
       ELSE IF Contains(line, kw_access_vlan)
       THEN [config EXCEPT !.access_vlan = TrailingInt(@, line)]
       ELSE IF Contains(line, kw_voice_vlan)
       THEN [config EXCEPT !.voice_vlan = TrailingInt(@, line)]
       ELSE IF Contains(line, kw_portfast) THEN [config EXCEPT !.portfast = TRUE]
       ELSE IF Contains(line, kw_poe_never) THEN [config EXCEPT !.poe = "never"]
       ELSE IF Contains(line, kw_poe_auto) THEN [config EXCEPT !.poe = "auto"]
       ELSE IF Strip(line) = kw_shutdown THEN [config EXCEPT !.shutdown = TRUE]
       ELSE config

RECURSIVE ProfileLines(_, _)
ProfileLines(config, int_lines) ==
    IF int_lines = <<>> THEN config
    ELSE ProfileLines(ProfileLine(config, Head(int_lines)), Tail(int_lines))

extract_config_profile(int_lines) == ProfileLines(DefaultProfile, int_lines)

(***************************************************************************)
(* A running configuration segmented line by line, then every block's      *)
(* profile extracted (specification SpecProfile).                          *)
(***************************************************************************)
\* text: [interface Gi0/1]
R_int1 == <<"i", "n", "t", "e", "r", "f", "a", "c", "e", " ", "G", "i", "0", "/", "1">>
\* text: [interface Gi0/2]
R_int2 == <<"i", "n", "t", "e", "r", "f", "a", "c", "e", " ", "G", "i", "0", "/", "2">>
\* text: [interface]
R_int_bare == <<"i", "n", "t", "e", "r", "f", "a", "c", "e">>
\* text: [ switchport access vlan 10]
R_access10 == <<" ", "s", "w", "i", "t", "c", "h", "p", "o", "r", "t", " ", "a", "c", "c", "e", "s", "s", " ", "v", "l", "a", "n", " ", "1", "0">>
\* text: [ switchport access vlan 20]
R_access20 == <<" ", "s", "w", "i", "t", "c", "h", "p", "o", "r", "t", " ", "a", "c", "c", "e", "s", "s", " ", "v", "l", "a", "n", " ", "2", "0">>
\* text: [ switchport access vlan none]
R_access_none == <<" ", "s", "w", "i", "t", "c", "h", "p", "o", "r", "t", " ", "a", "c", "c", "e", "s", "s", " ", "v", "l", "a", "n", " ", "n", "o", "n", "e">>
\* text: [ switchport voice vlan 20]
R_voice20 == <<" ", "s", "w", "i", "t", "c", "h", "p", "o", "r", "t", " ", "v", "o", "i", "c", "e", " ", "v", "l", "a", "n", " ", "2", "0">>
\* text: [ switchport voice vlan dot1p]
R_voice_dot1p == <<" ", "s", "w", "i", "t", "c", "h", "p", "o", "r", "t", " ", "v", "o", "i", "c", "e", " ", "v", "l", "a", "n", " ", "d", "o", "t", "1", "p">>
R_bang == <<"!">>
\* text: [! end]
R_bang_text == <<"!", " ", "e", "n", "d">>

ConfigLinePool == {R_int1, R_int2, R_int_bare, R_access10, R_access20, R_access_none,
                   R_voice20, R_voice_dot1p, R_bang, R_bang_text}

InitProfile ==
    /\ pc = "blocks"
    /\ line_no = 1
    /\ IdleBuild
    /\ IdleIndex
    /\ mac_table_entries = <<>>
    /\ vlan_names = EmptyDict
    /\ new_switch_mac_map = EmptyDict
    /\ interface_modes = EmptyDict
    /\ switchport_output = <<>>
    /\ current_intf = None
    /\ show_run \in SeqsUpTo(ConfigLinePool, MaxConfigLines)
    /\ current_int = None
    /\ blocks = EmptyDict
    /\ profiles = EmptyDict

\* get_interface_blocks, one line of the configuration
ScanConfigLine ==
    /\ pc = "blocks"
    /\ line_no <= Len(show_run)
    /\ IF IsDeclaration(show_run[line_no]) /\ DeclarationRaises(show_run[line_no])
       THEN /\ pc' = "IndexError"
            /\ UNCHANGED <<line_no, current_int, blocks>>
       ELSE LET st == BlockLine([current_int |-> current_int, blocks |-> blocks],
                                show_run[line_no])
            IN /\ current_int' = st.current_int
               /\ blocks' = st.blocks
               /\ line_no' = line_no + 1
               /\ pc' = pc
    /\ UNCHANGED <<argVars, legacyVars, deviceVars, planVars, indexVars, modesVars,
                   show_run, profiles>>

\* line 42
ReturnBlocks ==
    /\ pc = "blocks"
    /\ line_no > Len(show_run)
    /\ pc' = "segmented"
    /\ UNCHANGED <<line_no, argVars, legacyVars, deviceVars, planVars, indexVars,
                   scanVars>>

\* main 104-109: the profile of every interface that has a block
ExtractProfiles ==
    /\ pc = "segmented"
    /\ profiles' = [intf \in DOMAIN blocks |-> extract_config_profile(blocks[intf])]
    /\ pc' = "extracted"
    /\ UNCHANGED <<line_no, argVars, legacyVars, deviceVars, planVars, indexVars,
                   modesVars, show_run, current_int, blocks>>

NextProfile == ScanConfigLine \/ ReturnBlocks \/ ExtractProfiles

SpecProfile == InitProfile /\ [][NextProfile]_vars

(***************************************************************************)
(* Properties of the segmenter and the extractor (specification            *)
(* SpecProfile).                                                           *)
(***************************************************************************)
\* the lines scanned so far
Scanned == 1..(line_no - 1)

Declarations == {d \in Scanned : StartsWith(show_run[d], kw_interface_decl)}

DeclaredName(d) == SplitWS(Strip(show_run[d]))[2]

\* the scanned lines that begin with '!', and those that are '!' alone
BangLines == {e \in Scanned : StartsWith(show_run[e], kw_bang)}

SoleBangLines == {e \in Scanned : show_run[e] = kw_bang}

\* the block that starts at declaration d when the lines `stops` close a block
BlockFrom(d, stops) ==
    LET ends == {e \in (stops \cup Declarations) : e > d}
        last == IF ends = {} THEN line_no - 1
                ELSE (CHOOSE e \in ends : \A h \in ends : e <= h) - 1
    IN SubSeq(show_run, d, last)

\* the most recent declaration of an interface name
LastDeclarationOf(name) ==
    CHOOSE d \in Declarations :
        /\ DeclaredName(d) = name
        /\ \A h \in Declarations : DeclaredName(h) = name => h <= d

BlocksAre(stops) ==
    /\ DOMAIN blocks = {DeclaredName(d) : d \in Declarations}
    /\ \A name \in DOMAIN blocks : blocks[name] = BlockFrom(LastDeclarationOf(name), stops)

\* C8 as stated: the block recorded for an interface is its declaration line
\* followed by the lines up to the first later line that is '!' alone or the
\* next declaration line (or the end of the text); no other line is in a block.
C8_AsStated == BlocksAre(SoleBangLines)

\* C8 (amended): the block recorded for an interface is its (most recent)
\* declaration line followed by the lines up to the first later line that
\* begins with '!' or the next declaration line (or the end of the text); no
\* other line is in a block.
C8_BlocksEndAtBang == BlocksAre(BangLines)

C8_Witness ==
    /\ pc = "segmented"
    /\ \E name \in DOMAIN blocks :
          LET d == LastDeclarationOf(name)
          IN /\ Len(blocks[name]) >= 2
             /\ d + Len(blocks[name]) \in BangLines \ SoleBangLines
             /\ d + Len(blocks[name]) < Len(show_run)

\* the directives of one kind in a block, as the extractor classifies them
DirectivesOf(int_lines, kw) ==
    {k \in DOMAIN int_lines :
        /\ Contains(Strip(int_lines[k]), kw)
        /\ ~StartsWith(Strip(int_lines[k]), kw_description)
        /\ ~Contains(Strip(int_lines[k]), kw_mode_access)
        /\ ~Contains(Strip(int_lines[k]), kw_mode_trunk)
        /\ kw = kw_voice_vlan => ~Contains(Strip(int_lines[k]), kw_access_vlan)}

IntegerDirectivesOf(int_lines, kw) ==
    {k \in DirectivesOf(int_lines, kw) : IsInt(LastToken(int_lines[k]))}

Latest(S) == CHOOSE k \in S : \A h \in S : h <= k

\* the field as C10 states it: None when a directive of the kind has a
\* non-integer trailing token, else the integer of the last directive
FieldAsStated(int_lines, kw) ==
    IF DirectivesOf(int_lines, kw) = {} THEN NoInt
    ELSE IF DirectivesOf(int_lines, kw) # IntegerDirectivesOf(int_lines, kw) THEN NoInt
    ELSE <<IntOf(LastToken(int_lines[Latest(DirectivesOf(int_lines, kw))]))>>

\* the field as amended: the integer of the last directive that has one
FieldAmended(int_lines, kw) ==
    IF IntegerDirectivesOf(int_lines, kw) = {} THEN NoInt
    ELSE <<IntOf(LastToken(int_lines[Latest(IntegerDirectivesOf(int_lines, kw))]))>>

\* C10 as stated: a directive with a non-integer trailing token leaves the
\* access-VLAN (voice-VLAN) field None; otherwise the field is the integer
\* trailing token of the last such directive.
C10_AsStated ==
    pc = "extracted" =>
        \A intf \in DOMAIN profiles :
            /\ profiles[intf].access_vlan = FieldAsStated(blocks[intf], kw_access_vlan)
            /\ profiles[intf].voice_vlan = FieldAsStated(blocks[intf], kw_voice_vlan)

\* C10 (amended): a directive with a non-integer trailing token raises no
\* error and leaves the field as it was; the field is the integer trailing
\* token of the last directive of its kind that has one, None when none has.
C10_LastIntegerWins ==
    pc = "extracted" =>
        /\ DOMAIN profiles = DOMAIN blocks
        /\ \A intf \in DOMAIN profiles :
              /\ profiles[intf].access_vlan = FieldAmended(blocks[intf], kw_access_vlan)
              /\ profiles[intf].voice_vlan = FieldAmended(blocks[intf], kw_voice_vlan)

C10_Witness ==
    /\ pc = "extracted"
    /\ \E intf \in DOMAIN profiles :
          /\ \E a, b, c \in DirectivesOf(blocks[intf], kw_access_vlan) :
                /\ a < b /\ b < c
                /\ a \in IntegerDirectivesOf(blocks[intf], kw_access_vlan)
                /\ b \in IntegerDirectivesOf(blocks[intf], kw_access_vlan)
                /\ c \notin IntegerDirectivesOf(blocks[intf], kw_access_vlan)
                /\ LastToken(blocks[intf][a]) # LastToken(blocks[intf][b])
          /\ profiles[intf].access_vlan # NoInt

(***************************************************************************)
(* Malformed input (specifications SpecProfile and SpecBuild).             *)
(***************************************************************************)
\* a function of the core was left by an uncaught exception: IndexError from
\* get_interface_blocks (line 35), ValueError from build_config_commands
\* (line 163)
Raised == pc \in {"IndexError", "ValueError"}

\* C11: no input line makes the core fail: whatever the input text (a
\* declaration line without a name token, a record whose VLAN field is not
\* numeric), no function of the core reaches an error state.
C11_NeverRaises == ~Raised

====
